---- MODULE Spec2Model ----
(***************************************************************************)
(* libfsapfs: the file system B-tree node decoder,                         *)
(* libfsapfs_file_system_btree_read_data (libfsapfs_file_system_btree.c).  *)
(*                                                                         *)
(* One call of read_data is modelled as a state machine whose positions    *)
(* (pc) are the stages of the function.  The data buffer is immutable and  *)
(* every field of it is read at most once, so the value of a field is      *)
(* drawn when the code reads it.  Built without HAVE_DEBUG_OUTPUT.         *)
(***************************************************************************)
EXTENDS Integers, Sequences, FiniteSets

VARIABLES
    file_system_btree,    \* argument: "NULL" or "handle"
    data,                 \* argument: "NULL" or "buffer"
    data_size,            \* argument: size_t
    pc,                   \* position inside read_data
    result,               \* 0 while running, then 1 or -1
    error,                \* NoError or [domain, code, site]
    object_type,
    object_subtype,
    btree_header,         \* the pointer: "NULL" or "allocated"
    header,               \* the fields of *btree_header as last decoded
    btree_footer,         \* the pointer: "NULL" or "allocated"
    footer,               \* the fields of *btree_footer as last decoded
    data_offset,
    remaining_data_size,
    entries_data_offset,
    footer_offset,
    map_entry_index,
    btree_entry,          \* the TOC record at *btree_entry, as stored in the buffer
    key_data_offset,
    key_data_size,
    value_data_offset,
    value_data_size,
    reads,                \* history: the byte ranges <<first, end>> read from data
    toc_reads,            \* history: data_offset of each TOC record read, in order
    io_pc,                \* position inside read_file_io_handle, "direct" without it
    block_size,           \* argument of read_file_io_handle: uint32_t
    block_data,           \* the pointer: "NULL", "allocated" or "freed"
    block_frees,          \* history: the number of memory_free( block_data )
    read_count,           \* what libbfio_handle_read_buffer returned
    io_result             \* 0 while running, then 1 or -1

vars == <<file_system_btree, data, data_size, pc, result, error, object_type,
          object_subtype, btree_header, header, btree_footer, footer, data_offset,
          remaining_data_size, entries_data_offset, footer_offset,
          map_entry_index, btree_entry, key_data_offset, key_data_size,
          value_data_offset, value_data_size, reads, toc_reads,
          io_pc, block_size, block_data, block_frees, read_count, io_result>>

----------------------------------------------------------------------------
(* The sizes of the on-disk structures fsapfs_object_t,                    *)
(* fsapfs_btree_header_t, fsapfs_btree_footer_t and                        *)
(* fsapfs_btree_variable_size_entry_t, and the range of a uint16_t         *)

ObjectSize == 32
BtreeHeaderSize == 24
BtreeFooterSize == 40
EntrySize == 8
UInt16 == 65536

(* SSIZE_MAX where size_t has 32 bits *)
SSIZE_MAX == 2147483647

NULL == "NULL"

(* The largest number of TOC records the entries region of a run holds *)
MaxEntries == 3

----------------------------------------------------------------------------
(* The inputs: the sizes and field values the runs draw.  The data sizes   *)
(* lie on both sides of each size check and of the range of a uint16_t;    *)
(* the field values on both sides of what they are compared with.          *)

DataSizes == {0, 31, 32, 55, 56, 95, 96, 97, 128, 70000}

ObjectTypes == {2, 1}
ObjectSubtypes == {14, 11}
HeaderFlags == {3, 0, 1, 2, 7}
EntriesOffsets == {0, 8, 16, 32, 65500}
EntriesSizes == {EntrySize * k : k \in 0..MaxEntries} \cup {7, 65535}
UnusedOffsets == {0, 8, 65535}
UnusedSizes == {0, 1, 8, 65535}
FooterSizes == {0, 1}
EntryCounts == (0..(MaxEntries + 1)) \cup {65536}

InU16(S) == {v \in S : v >= 0 /\ v < UInt16}

----------------------------------------------------------------------------
(* libcerror: the first error set on an error object fixes its domain and  *)
(* code; site names the check that set it.                                 *)

Error(domain, code, site) == [domain |-> domain, code |-> code, site |-> site]

NoError == Error("NONE", "NONE", "none")

ArgumentError(site) == Error("ARGUMENTS", "INVALID_VALUE", site)
ValueMissing(site) == Error("RUNTIME", "VALUE_MISSING", site)
OutOfBounds(site) == Error("RUNTIME", "VALUE_OUT_OF_BOUNDS", site)
UnsupportedValue(site) == Error("RUNTIME", "UNSUPPORTED_VALUE", site)
InitializeFailed(site) == Error("RUNTIME", "INITIALIZE_FAILED", site)
FinalizeFailed(site) == Error("RUNTIME", "FINALIZE_FAILED", site)
ReadFailed(site) == Error("IO", "READ_FAILED", site)
SeekFailed(site) == Error("IO", "SEEK_FAILED", site)
MemoryInsufficient(site) == Error("MEMORY", "INSUFFICIENT", site)

(* libcerror_error_set on an error object that may hold an error already *)
SetError(err) == IF error = NoError THEN err ELSE error

----------------------------------------------------------------------------
(* The checks and computations of read_data *)

DataSizeInvalid(size) == size < ObjectSize \/ size > SSIZE_MAX

ObjectTypeUnsupported(type) == type # 2

ObjectSubtypeUnsupported(subtype) == subtype # 14

(* as HeaderExceedsData, the size of the header left out *)
HeaderExceedsData_NoSize(size, offset) == size < offset

HeaderExceedsData(size, offset) == size < offset + BtreeHeaderSize

(* as FlagsUnsupported, a test of the two low bits *)
FlagsUnsupported_BitTest(flags) == flags % 4 # 3

FlagsUnsupported(flags) == flags # 3

FooterExceedsData(size, offset) == size < offset + BtreeFooterSize

EntriesOffsetOutOfBounds(value, remaining) == value >= remaining

EntriesSizeOutOfBounds(value, remaining) == value > remaining

(* as UnusedOffsetOutOfBounds, the comparison of a size *)
UnusedOffsetOutOfBounds_Strict(value, remaining) == value > remaining

UnusedOffsetOutOfBounds(value, remaining) == value >= remaining

(* as UnusedSizeOutOfBounds, the footer not yet taken off *)
UnusedSizeOutOfBounds_Footer(value, remaining) ==
    value > remaining + BtreeFooterSize

UnusedSizeOutOfBounds(value, remaining) == value > remaining

KeySizeInvalid(size) == size # 0

(* as ValueSizeInvalid, the check left out *)
ValueSizeInvalid_Omitted(size) == FALSE

ValueSizeInvalid(size) == size # 0

(* as NumberOfEntriesOutOfBounds, the size of a record left out *)
NumberOfEntriesOutOfBounds_Bytes(number, entries_size) ==
    number > entries_size

NumberOfEntriesOutOfBounds(number, entries_size) ==
    number > entries_size \div EntrySize

EntriesDataOffset(entries_offset) ==
    (entries_offset + ((ObjectSize + BtreeHeaderSize) % UInt16)) % UInt16

FooterOffset(size) == (size - BtreeFooterSize) % UInt16

AbsoluteKeyOffset(offset, entries_offset, entries_size) ==
    (offset + entries_offset + entries_size) % UInt16

(* as KeyOutOfBounds, the size left unchecked *)
KeyOutOfBounds_OffsetOnly(offset, size, total) == offset > total

KeyOutOfBounds(offset, size, total) ==
    offset > total \/ size > total - offset

AbsoluteValueOffset(anchor, offset) == (anchor - offset) % UInt16

ValueOutOfBounds(offset, size, total) ==
    offset > total \/ size > total - offset

----------------------------------------------------------------------------

(* The objects as memory_set leaves them at creation *)
ZeroHeader == [flags |-> 0, entries_data_offset |-> 0, entries_data_size |-> 0,
               unused_data_offset |-> 0, unused_data_size |-> 0]

ZeroFooter == [key_size |-> 0, value_size |-> 0, number_of_entries |-> 0]

ZeroEntry == [key_data_offset |-> 0, key_data_size |-> 0,
              value_data_offset |-> 0, value_data_size |-> 0]

Init ==
    /\ file_system_btree \in {NULL, "handle"}
    /\ data \in {NULL, "buffer"}
    /\ data_size \in DataSizes
    /\ pc = "start"
    /\ result = 0
    /\ error = NoError
    /\ object_type = 0
    /\ object_subtype = 0
    /\ btree_header = NULL
    /\ header = ZeroHeader
    /\ btree_footer = NULL
    /\ footer = ZeroFooter
    /\ data_offset = 0
    /\ remaining_data_size = 0
    /\ entries_data_offset = 0
    /\ footer_offset = 0
    /\ map_entry_index = 0
    /\ btree_entry = ZeroEntry
    /\ key_data_offset = 0
    /\ key_data_size = 0
    /\ value_data_offset = 0
    /\ value_data_size = 0
    /\ reads = {}
    /\ toc_reads = <<>>
    /\ io_pc = "direct"
    /\ block_size = 0
    /\ block_data = NULL
    /\ block_frees = 0
    /\ read_count = 0
    /\ io_result = 0

arguments == <<file_system_btree, data, data_size>>
file_io == <<io_pc, block_size, block_data, block_frees, read_count, io_result>>
objects == <<object_type, object_subtype>>
pointers == <<btree_header, btree_footer>>
fields == <<header, footer>>
offsets == <<data_offset, remaining_data_size, entries_data_offset, footer_offset>>
entry == <<map_entry_index, btree_entry, key_data_offset, key_data_size,
           value_data_offset, value_data_size, toc_reads>>

(* return( -1 ) without cleanup *)
Return(err) ==
    /\ pc' = "done"
    /\ result' = -1
    /\ error' = err

(* goto on_error *)
Goto(err) ==
    /\ pc' = "on_error"
    /\ error' = err
    /\ UNCHANGED result

(* The argument checks *)
CheckArguments ==
    /\ pc = "start"
    /\ IF file_system_btree = NULL
         THEN Return(ArgumentError("file_system_btree"))
         ELSE IF data = NULL
           THEN Return(ValueMissing("data"))
           ELSE IF DataSizeInvalid(data_size)
             THEN Return(OutOfBounds("data_size"))
             ELSE /\ pc' = "object"
                  /\ UNCHANGED <<result, error>>
    /\ UNCHANGED <<arguments, objects, pointers, fields, offsets, entry, reads>>
    /\ UNCHANGED file_io

(* The object header: type and subtype, then the room for the B-tree header *)
ReadObject ==
    /\ pc = "object"
    /\ \E type \in ObjectTypes, subtype \in ObjectSubtypes :
         /\ object_type' = type
         /\ IF ObjectTypeUnsupported(type)
              THEN /\ Goto(UnsupportedValue("object_type"))
                   /\ reads' = reads \cup {<<24, 28>>}
                   /\ UNCHANGED <<object_subtype, data_offset>>
              ELSE /\ object_subtype' = subtype
                   /\ reads' = reads \cup {<<24, 28>>, <<28, 32>>}
                   /\ IF ObjectSubtypeUnsupported(subtype)
                        THEN /\ Goto(UnsupportedValue("object_subtype"))
                             /\ UNCHANGED data_offset
                        ELSE /\ data_offset' = ObjectSize
                             /\ IF HeaderExceedsData(data_size, ObjectSize)
                                  THEN Goto(OutOfBounds("header_size"))
                                  ELSE /\ pc' = "header"
                                       /\ UNCHANGED <<result, error>>
    /\ UNCHANGED <<arguments, pointers, fields, remaining_data_size,
                   entries_data_offset, footer_offset, entry>>
    /\ UNCHANGED file_io

(* The collaborators libfsapfs_btree_header_* and libfsapfs_btree_footer_*  *)
(* return 1 or -1; an outcome is whether the call returned 1.              *)
Outcomes == BOOLEAN

(* The B-tree header: create it, decode it, the flags, the room for the footer *)
ReadHeader ==
    /\ pc = "header"
    /\ \E initialized \in Outcomes, decoded \in Outcomes,
          flags \in HeaderFlags,
          entries_offset \in InU16(EntriesOffsets),
          entries_size \in InU16(EntriesSizes),
          unused_offset \in InU16(UnusedOffsets),
          unused_size \in InU16(UnusedSizes) :
         IF ~initialized
           THEN /\ Goto(InitializeFailed("header_initialize"))
                /\ UNCHANGED <<btree_header, header, reads, data_offset>>
           ELSE /\ btree_header' = "allocated"
                /\ reads' = reads \cup {<<data_offset, data_offset + BtreeHeaderSize>>}
                /\ IF ~decoded
                     THEN /\ Goto(ReadFailed("header_read"))
                          /\ UNCHANGED <<header, data_offset>>
                     ELSE /\ header' = [flags |-> flags,
                                        entries_data_offset |-> entries_offset,
                                        entries_data_size |-> entries_size,
                                        unused_data_offset |-> unused_offset,
                                        unused_data_size |-> unused_size]
                          /\ IF FlagsUnsupported(flags)
                               THEN /\ Goto(UnsupportedValue("flags"))
                                    /\ UNCHANGED data_offset
                               ELSE /\ data_offset' = data_offset + BtreeHeaderSize
                                    /\ IF FooterExceedsData(data_size,
                                              data_offset + BtreeHeaderSize)
                                         THEN Goto(OutOfBounds("footer_size"))
                                         ELSE /\ pc' = "accounting"
                                              /\ UNCHANGED <<result, error>>
    /\ UNCHANGED <<arguments, objects, btree_footer, footer, remaining_data_size,
                   entries_data_offset, footer_offset, entry>>
    /\ UNCHANGED file_io

(* The accounting chain of the header: entries offset, entries size,       *)
(* unused offset, unused size against the remaining data size              *)
HeaderAccounting ==
    /\ pc = "accounting"
    /\ LET remaining0 == data_size - data_offset - BtreeFooterSize
           remaining1 == remaining0 - header.entries_data_offset
           remaining2 == remaining1 - header.entries_data_size
           remaining3 == remaining2 - header.unused_data_offset
       IN  IF EntriesOffsetOutOfBounds(header.entries_data_offset, remaining0)
             THEN /\ Goto(OutOfBounds("entries_data_offset"))
                  /\ remaining_data_size' = remaining0
             ELSE IF EntriesSizeOutOfBounds(header.entries_data_size, remaining1)
               THEN /\ Goto(OutOfBounds("entries_data_size"))
                    /\ remaining_data_size' = remaining1
               ELSE IF UnusedOffsetOutOfBounds(header.unused_data_offset, remaining2)
                 THEN /\ Goto(OutOfBounds("unused_data_offset"))
                      /\ remaining_data_size' = remaining2
                 ELSE /\ remaining_data_size' = remaining3
                      /\ IF UnusedSizeOutOfBounds(header.unused_data_size, remaining3)
                           THEN Goto(OutOfBounds("unused_data_size"))
                           ELSE /\ pc' = "footer"
                                /\ UNCHANGED <<result, error>>
    /\ UNCHANGED <<arguments, objects, pointers, fields, data_offset,
                   entries_data_offset, footer_offset, entry, reads>>
    /\ UNCHANGED file_io

(* The B-tree footer: create it, decode it, key size, value size, number   *)
(* of entries; then the anchors of the TOC walk                            *)
ReadFooter ==
    /\ pc = "footer"
    /\ \E initialized \in Outcomes, decoded \in Outcomes,
          key_size \in FooterSizes, value_size \in FooterSizes,
          number_of_entries \in EntryCounts :
         IF ~initialized
           THEN /\ Goto(InitializeFailed("footer_initialize"))
                /\ UNCHANGED <<btree_footer, footer, reads, data_offset,
                               entries_data_offset, footer_offset>>
           ELSE /\ btree_footer' = "allocated"
                /\ reads' = reads \cup
                       {<<data_size - BtreeFooterSize, data_size>>}
                /\ IF ~decoded
                     THEN /\ Goto(ReadFailed("footer_read"))
                          /\ UNCHANGED <<footer, data_offset, entries_data_offset,
                                         footer_offset>>
                     ELSE /\ footer' = [key_size |-> key_size,
                                        value_size |-> value_size,
                                        number_of_entries |-> number_of_entries]
                          /\ IF KeySizeInvalid(key_size)
                               THEN /\ Goto(OutOfBounds("key_size"))
                                    /\ UNCHANGED <<data_offset, entries_data_offset,
                                                   footer_offset>>
                               ELSE IF ValueSizeInvalid(value_size)
                                 THEN /\ Goto(OutOfBounds("value_size"))
                                      /\ UNCHANGED <<data_offset, entries_data_offset,
                                                     footer_offset>>
                                 ELSE IF NumberOfEntriesOutOfBounds(number_of_entries,
                                             header.entries_data_size)
                                   THEN /\ Goto(OutOfBounds("number_of_entries"))
                                        /\ UNCHANGED <<data_offset, entries_data_offset,
                                                       footer_offset>>
                                   ELSE /\ data_offset' = data_offset +
                                               header.entries_data_offset
                                        /\ entries_data_offset' = EntriesDataOffset(
                                               header.entries_data_offset)
                                        /\ footer_offset' = FooterOffset(data_size)
                                        /\ pc' = "entries"
                                        /\ UNCHANGED <<result, error>>
    /\ UNCHANGED <<arguments, objects, btree_header, header, remaining_data_size,
                   entry>>
    /\ UNCHANGED file_io

(* The TOC records a run draws: around the anchors the checks compare with *)
KeyOffsets(total, anchor) ==
    InU16({0, total - anchor, total - anchor + 1, UInt16 - anchor})

ValueOffsets(anchor) == InU16({0, anchor, anchor + 1, UInt16 - 1})

DataSizesAt(total, offset) == InU16({0, total - offset, total - offset + 1})

(* One TOC record: read it, resolve and check the key, then the value *)
ReadEntry ==
    /\ pc = "entries"
    /\ map_entry_index < footer.number_of_entries
    /\ LET entries_size == header.entries_data_size
           anchor == AbsoluteKeyOffset(0, entries_data_offset, entries_size)
       IN  \E key_offset \in KeyOffsets(data_size, anchor),
              value_offset \in ValueOffsets(footer_offset) :
           LET key == AbsoluteKeyOffset(key_offset, entries_data_offset, entries_size)
               value == AbsoluteValueOffset(footer_offset, value_offset)
           IN  \E key_size \in DataSizesAt(data_size, key),
                  value_size \in DataSizesAt(data_size, value) :
                 /\ btree_entry' = [key_data_offset |-> key_offset,
                                    key_data_size |-> key_size,
                                    value_data_offset |-> value_offset,
                                    value_data_size |-> value_size]
                 /\ reads' = reads \cup {<<data_offset, data_offset + EntrySize>>}
                 /\ toc_reads' = Append(toc_reads, data_offset)
                 /\ data_offset' = data_offset + EntrySize
                 /\ key_data_offset' = key
                 /\ key_data_size' = key_size
                 /\ value_data_size' = value_size
                 /\ IF KeyOutOfBounds(key, key_size, data_size)
                      THEN /\ Goto(OutOfBounds("key_data_offset"))
                           /\ value_data_offset' = value_offset
                           /\ UNCHANGED map_entry_index
                      ELSE /\ value_data_offset' = value
                           /\ IF ValueOutOfBounds(value, value_size, data_size)
                                THEN /\ Goto(OutOfBounds("value_data_offset"))
                                     /\ UNCHANGED map_entry_index
                                ELSE /\ map_entry_index' = map_entry_index + 1
                                     /\ UNCHANGED <<pc, result, error>>
    /\ UNCHANGED <<arguments, objects, pointers, fields, remaining_data_size,
                   entries_data_offset, footer_offset>>
    /\ UNCHANGED file_io

(* After the last record: free the footer, free the header, return 1.      *)
(* A free that fails leaves its object allocated.                          *)
Finish ==
    /\ pc = "entries"
    /\ ~(map_entry_index < footer.number_of_entries)
    /\ \E footer_freed \in Outcomes, header_freed \in Outcomes :
         IF ~footer_freed
           THEN /\ Goto(FinalizeFailed("footer_free"))
                /\ UNCHANGED <<btree_footer, btree_header>>
           ELSE /\ btree_footer' = NULL
                /\ IF ~header_freed
                     THEN /\ Goto(FinalizeFailed("header_free"))
                          /\ UNCHANGED btree_header
                     ELSE /\ btree_header' = NULL
                          /\ pc' = "done"
                          /\ result' = 1
                          /\ UNCHANGED error
    /\ UNCHANGED <<arguments, objects, fields, offsets, entry, reads>>
    /\ UNCHANGED file_io

(* as OnError, the header left allocated *)
OnError_FooterOnly ==
    /\ pc = "on_error"
    /\ btree_footer' = NULL
    /\ pc' = "done"
    /\ result' = -1
    /\ UNCHANGED <<arguments, objects, fields, offsets, entry, reads, error,
                   btree_header>>
    /\ UNCHANGED file_io

(* on_error: free what was created, return -1 *)
OnError ==
    /\ pc = "on_error"
    /\ btree_footer' = NULL
    /\ btree_header' = NULL
    /\ pc' = "done"
    /\ result' = -1
    /\ UNCHANGED <<arguments, objects, fields, offsets, entry, reads, error>>
    /\ UNCHANGED file_io

Next ==
    \/ CheckArguments
    \/ ReadObject
    \/ ReadHeader
    \/ HeaderAccounting
    \/ ReadFooter
    \/ ReadEntry
    \/ Finish
    \/ OnError

Spec == Init /\ [][Next]_vars

----------------------------------------------------------------------------
(* libfsapfs_file_system_btree_read_file_io_handle: allocate the block,    *)
(* seek, read, decode the block with read_data, free the block             *)

BlockSizes == {0, 31, 32, 96, 128, 70000}

(* What libbfio_handle_read_buffer may return for a block *)
ReadCounts(size) == {count \in {-1, 0, size - 1, size} : count >= -1}

BlockSizeInvalid(size) == size > SSIZE_MAX

(* as ShortRead, only a failed read taken for an error *)
ShortRead_ErrorOnly(count, size) == count < 0

ShortRead(count, size) == count # size

InitFileIo ==
    /\ file_system_btree \in {NULL, "handle"}
    /\ data = NULL
    /\ data_size = 0
    /\ pc = "idle"
    /\ result = 0
    /\ error = NoError
    /\ object_type = 0
    /\ object_subtype = 0
    /\ btree_header = NULL
    /\ header = ZeroHeader
    /\ btree_footer = NULL
    /\ footer = ZeroFooter
    /\ data_offset = 0
    /\ remaining_data_size = 0
    /\ entries_data_offset = 0
    /\ footer_offset = 0
    /\ map_entry_index = 0
    /\ btree_entry = ZeroEntry
    /\ key_data_offset = 0
    /\ key_data_size = 0
    /\ value_data_offset = 0
    /\ value_data_size = 0
    /\ reads = {}
    /\ toc_reads = <<>>
    /\ io_pc = "io_start"
    /\ block_size \in BlockSizes
    /\ block_data = NULL
    /\ block_frees = 0
    /\ read_count = 0
    /\ io_result = 0

decode == <<pc, result, objects, pointers, fields, offsets, entry, reads>>

(* return( -1 ) of read_file_io_handle without cleanup *)
IoReturnError(err) ==
    /\ io_pc' = "io_done"
    /\ io_result' = -1
    /\ error' = err

(* goto on_error of read_file_io_handle *)
IoGoto(err) ==
    /\ io_pc' = "io_on_error"
    /\ error' = SetError(err)
    /\ UNCHANGED io_result

(* The argument checks and the allocation of the block *)
IoAllocate ==
    /\ io_pc = "io_start"
    /\ IF file_system_btree = NULL
         THEN /\ IoReturnError(ArgumentError("io_file_system_btree"))
              /\ UNCHANGED block_data
         ELSE IF BlockSizeInvalid(block_size)
           THEN /\ IoReturnError(OutOfBounds("block_size"))
                /\ UNCHANGED block_data
           ELSE \E allocated \in Outcomes :
                  IF ~allocated
                    THEN /\ IoGoto(MemoryInsufficient("block_data"))
                         /\ UNCHANGED block_data
                    ELSE /\ block_data' = "allocated"
                         /\ io_pc' = "io_seek"
                         /\ UNCHANGED <<io_result, error>>
    /\ UNCHANGED <<arguments, decode, block_size, block_frees, read_count>>

(* libbfio_handle_seek_offset *)
IoSeek ==
    /\ io_pc = "io_seek"
    /\ \E sought \in Outcomes :
         IF ~sought
           THEN IoGoto(SeekFailed("seek_offset"))
           ELSE /\ io_pc' = "io_read"
                /\ UNCHANGED <<io_result, error>>
    /\ UNCHANGED <<arguments, decode, block_size, block_data, block_frees,
                   read_count>>

(* libbfio_handle_read_buffer, then the call of read_data on the block *)
IoRead ==
    /\ io_pc = "io_read"
    /\ \E count \in ReadCounts(block_size) :
         /\ read_count' = count
         /\ IF ShortRead(count, block_size)
              THEN /\ IoGoto(ReadFailed("read_buffer"))
                   /\ UNCHANGED <<data, data_size, pc>>
              ELSE /\ data' = "buffer"
                   /\ data_size' = block_size
                   /\ pc' = "start"
                   /\ io_pc' = "io_decode"
                   /\ UNCHANGED <<io_result, error>>
    /\ UNCHANGED <<file_system_btree, result, objects, pointers, fields, offsets,
                   entry, reads, block_size, block_data, block_frees>>

(* read_data has returned: free the block and return 1, or goto on_error *)
IoReturn ==
    /\ io_pc = "io_decode"
    /\ pc = "done"
    /\ IF result # 1
         THEN /\ IoGoto(ReadFailed("read_data"))
              /\ UNCHANGED <<block_data, block_frees>>
         ELSE /\ block_data' = "freed"
              /\ block_frees' = block_frees + 1
              /\ io_pc' = "io_done"
              /\ io_result' = 1
              /\ UNCHANGED error
    /\ UNCHANGED <<arguments, decode, block_size, read_count>>

(* on_error of read_file_io_handle: free the block if there is one *)
IoOnError ==
    /\ io_pc = "io_on_error"
    /\ IF block_data # NULL
         THEN /\ block_data' = "freed"
              /\ block_frees' = block_frees + 1
         ELSE UNCHANGED <<block_data, block_frees>>
    /\ io_pc' = "io_done"
    /\ io_result' = -1
    /\ UNCHANGED <<arguments, decode, error, block_size, read_count>>

InitAny == Init \/ InitFileIo

NextFileIo ==
    \/ CheckArguments
    \/ ReadObject
    \/ ReadHeader
    \/ HeaderAccounting
    \/ ReadFooter
    \/ ReadEntry
    \/ Finish
    \/ OnError
    \/ IoAllocate
    \/ IoSeek
    \/ IoRead
    \/ IoReturn
    \/ IoOnError

(* A call of read_data, direct or from read_file_io_handle *)
SpecFileIo == InitAny /\ [][NextFileIo]_vars

----------------------------------------------------------------------------
(* What a state says about the call so far *)

(* The checks of read_data, in the order the code makes them *)
Sites == <<"file_system_btree", "data", "data_size", "object_type",
           "object_subtype", "header_size", "header_initialize", "header_read",
           "flags", "footer_size", "entries_data_offset", "entries_data_size",
           "unused_data_offset", "unused_data_size", "footer_initialize",
           "footer_read", "key_size", "value_size", "number_of_entries",
           "key_data_offset", "value_data_offset", "footer_free", "header_free">>

Rank(site) == CHOOSE i \in 1..Len(Sites) : Sites[i] = site

(* The number of checks behind a call that stands at a position unfailed *)
Checked == [idle |-> 0, start |-> 0, object |-> Rank("data_size"),
            header |-> Rank("header_size"), accounting |-> Rank("footer_size"),
            footer |-> Rank("unused_data_size"),
            entries |-> Rank("number_of_entries"),
            done |-> Rank("number_of_entries")]

(* The call has evaluated the check named site *)
Evaluated(site) ==
    IF error # NoError
      THEN Rank(error.site) >= Rank(site)
      ELSE Checked[pc] >= Rank(site)

FailedAt(site) == error.site = site

Failing == error # NoError /\ pc \in {"on_error", "done"} /\ result # 1

IsOutOfBounds == error.domain = "RUNTIME" /\ error.code = "VALUE_OUT_OF_BOUNDS"

IsUnsupported == error.domain = "RUNTIME" /\ error.code = "UNSUPPORTED_VALUE"

IsArgumentError == error.domain = "ARGUMENTS"

(* The last TOC record read has passed both of its checks *)
EntryResolved == Len(toc_reads) >= 1 /\ map_entry_index = Len(toc_reads)

HeaderEnd == ObjectSize + BtreeHeaderSize

(* The remaining size before each step of the accounting chain *)
Remaining0 == data_size - HeaderEnd - BtreeFooterSize
Remaining1 == Remaining0 - header.entries_data_offset
Remaining2 == Remaining1 - header.entries_data_size
Remaining3 == Remaining2 - header.unused_data_offset

----------------------------------------------------------------------------
(* C1: every TOC record that passed its checks has a key range and a value *)
(* range that start at or after 0 and end at or before data_size, with     *)
(* sizes that are not negative; a successful call walked only such records *)
C1_ResolvedRangesInBuffer ==
    /\ EntryResolved =>
         /\ 0 <= key_data_offset
         /\ 0 <= key_data_size
         /\ key_data_offset + key_data_size <= data_size
         /\ 0 <= value_data_offset
         /\ 0 <= value_data_size
         /\ value_data_offset + value_data_size <= data_size
    /\ (result = 1 /\ Len(toc_reads) >= 1) => EntryResolved

C1_Witness ==
    /\ result = 1
    /\ map_entry_index = 2
    /\ key_data_size > 0
    /\ key_data_offset + key_data_size = data_size
    /\ value_data_size > 0

(* C2: every byte range read from data lies inside [0, data_size), the     *)
(* footer is read at data_size - sizeof(footer), and the i-th TOC record   *)
(* is read at 32 + header size + entries offset + 8 * i, between the end   *)
(* of the B-tree header and the start of the footer                        *)
C2_ReadsInsideBuffer ==
    /\ \A r \in reads : 0 <= r[1] /\ r[1] < r[2] /\ r[2] <= data_size
    /\ Evaluated("key_size") =>
         <<data_size - BtreeFooterSize, data_size>> \in reads
    /\ \A i \in 1..Len(toc_reads) :
         /\ i <= footer.number_of_entries
         /\ toc_reads[i] =
              HeaderEnd + header.entries_data_offset + EntrySize * (i - 1)
         /\ HeaderEnd <= toc_reads[i]
         /\ toc_reads[i] + EntrySize <= data_size - BtreeFooterSize
         /\ <<toc_reads[i], toc_reads[i] + EntrySize>> \in reads

C2_Witness ==
    /\ Len(toc_reads) = 2
    /\ FailedAt("value_data_offset")
    /\ btree_entry.value_data_offset > data_size

(* C3 as claimed: each step of the accounting chain fails exactly when the *)
(* value it subtracts is strictly greater than the remaining size          *)
C3_FailsOnlyWhenGreater ==
    /\ Evaluated("entries_data_offset") =>
         (FailedAt("entries_data_offset") <=>
            header.entries_data_offset > Remaining0)
    /\ Evaluated("entries_data_size") =>
         (FailedAt("entries_data_size") <=>
            header.entries_data_size > Remaining1)
    /\ Evaluated("unused_data_offset") =>
         (FailedAt("unused_data_offset") <=>
            header.unused_data_offset > Remaining2)
    /\ Evaluated("unused_data_size") =>
         (FailedAt("unused_data_size") <=>
            header.unused_data_size > Remaining3)

(* C3 amended: the two offset steps fail exactly when the offset is greater *)
(* than or equal to the remaining size, the two size steps exactly when    *)
(* the size is strictly greater; a failing step is an out-of-bounds error  *)
C3_OffsetsStrictlyInside ==
    /\ Evaluated("entries_data_offset") =>
         (FailedAt("entries_data_offset") <=>
            header.entries_data_offset >= Remaining0)
    /\ Evaluated("entries_data_size") =>
         (FailedAt("entries_data_size") <=>
            header.entries_data_size > Remaining1)
    /\ Evaluated("unused_data_offset") =>
         (FailedAt("unused_data_offset") <=>
            header.unused_data_offset >= Remaining2)
    /\ Evaluated("unused_data_size") =>
         (FailedAt("unused_data_size") <=>
            header.unused_data_size > Remaining3)
    /\ \A site \in {"entries_data_offset", "entries_data_size",
                    "unused_data_offset", "unused_data_size"} :
         FailedAt(site) => Failing /\ IsOutOfBounds

C3_Witness ==
    /\ FailedAt("unused_data_offset")
    /\ header.entries_data_size > 0
    /\ header.entries_data_size = Remaining1
    /\ header.unused_data_offset = Remaining2

(* C4: the key offset that is checked is the exact sum 32 + header size +  *)
(* entries offset + entries size + key_data_offset, and a record whose     *)
(* exact sum exceeds data_size, or whose key size exceeds data_size minus  *)
(* the sum, fails with an out-of-bounds error                              *)
C4_ExactKeyOffset ==
    Len(toc_reads) >= 1 =>
      LET exact == HeaderEnd + header.entries_data_offset
                   + header.entries_data_size + btree_entry.key_data_offset
      IN  /\ key_data_offset = exact
          /\ (exact > data_size \/ btree_entry.key_data_size > data_size - exact)
               => (Failing /\ FailedAt("key_data_offset") /\ IsOutOfBounds)

(* C5: the value offset that is checked is the exact difference            *)
(* (data_size - footer size) - value_data_offset, and a record whose       *)
(* value_data_offset is greater than data_size - footer size fails with an *)
(* out-of-bounds error                                                     *)
C5_ExactValueOffset ==
    (Len(toc_reads) >= 1 /\ ~FailedAt("key_data_offset")) =>
      LET exact == (data_size - BtreeFooterSize) - btree_entry.value_data_offset
      IN  /\ exact >= 0 => value_data_offset = exact
          /\ exact < 0 =>
               (Failing /\ FailedAt("value_data_offset") /\ IsOutOfBounds)

(* C6: once the accounting chain has passed, and so in every successful    *)
(* call, 32 + header size + entries offset + entries size + unused offset  *)
(* + unused size + footer size is at most data_size                        *)
C6_RegionsFitBuffer ==
    (result = 1 \/ pc \in {"footer", "entries"}) =>
      HeaderEnd + header.entries_data_offset + header.entries_data_size
        + header.unused_data_offset + header.unused_data_size
        + BtreeFooterSize <= data_size

C6_Witness ==
    /\ result = 1
    /\ header.entries_data_offset > 0
    /\ header.entries_data_size > 0
    /\ header.unused_data_size > 0
    /\ HeaderEnd + header.entries_data_offset + header.entries_data_size
         + header.unused_data_offset + header.unused_data_size
         + BtreeFooterSize = data_size

(* C7: a successful call has number_of_entries * 8 <= entries size and has *)
(* read exactly number_of_entries TOC records, the i-th from the i-th      *)
(* position of the entries region, in increasing order; a number of        *)
(* entries above entries size / 8 fails with an out-of-bounds error before *)
(* any record is read                                                      *)
C7_EntriesWalkedInOrder ==
    /\ result = 1 =>
         /\ footer.number_of_entries * EntrySize <= header.entries_data_size
         /\ map_entry_index = footer.number_of_entries
         /\ Len(toc_reads) = footer.number_of_entries
    /\ \A i \in 1..Len(toc_reads) :
         /\ toc_reads[i] =
              HeaderEnd + header.entries_data_offset + EntrySize * (i - 1)
         /\ i > 1 => toc_reads[i - 1] < toc_reads[i]
    /\ map_entry_index <= Len(toc_reads)
    /\ Len(toc_reads) <= map_entry_index + 1
    /\ (Evaluated("key_size")
          /\ footer.number_of_entries > header.entries_data_size \div EntrySize)
         => /\ Failing
            /\ IsOutOfBounds
            /\ toc_reads = <<>>
            /\ Evaluated("number_of_entries") => FailedAt("number_of_entries")

C7_Witness ==
    /\ result = 1
    /\ footer.number_of_entries = 2
    /\ header.entries_data_size = 2 * EntrySize
    /\ header.entries_data_offset > 0

(* C8: an object type other than 2, an object subtype other than 14 and    *)
(* header flags other than exactly 3 each fail with the unsupported-value  *)
(* error, the flags before any step of the accounting chain                *)
C8_UnsupportedValues ==
    /\ (Evaluated("object_type") /\ object_type # 2)
         => (Failing /\ FailedAt("object_type") /\ IsUnsupported)
    /\ (Evaluated("object_subtype") /\ object_subtype # 14)
         => (Failing /\ FailedAt("object_subtype") /\ IsUnsupported)
    /\ (Evaluated("flags") /\ header.flags # 3)
         => (Failing /\ FailedAt("flags") /\ IsUnsupported)

C8_Witness ==
    /\ Failing
    /\ IsUnsupported
    /\ header.flags = 7
    /\ data_size >= HeaderEnd + BtreeFooterSize
    /\ header.entries_data_offset >= Remaining0

(* C9: a decoded footer with a key size or a value size other than 0 fails *)
(* with an out-of-bounds error, whatever its number of entries, and no TOC *)
(* record has been read                                                    *)
C9_FixedSizesRejected ==
    (Evaluated("key_size") /\ (footer.key_size # 0 \/ footer.value_size # 0))
      => /\ Failing
         /\ IsOutOfBounds
         /\ FailedAt("key_size") \/ FailedAt("value_size")
         /\ toc_reads = <<>>

C9_Witness ==
    /\ Failing
    /\ FailedAt("value_size")
    /\ footer.key_size = 0
    /\ footer.number_of_entries = 2
    /\ header.entries_data_size >= 2 * EntrySize

(* C10: a call with a null B-tree, null data or data_size 0 fails with an  *)
(* error of the arguments domain and has read no byte of data              *)
C10_ArgumentErrors ==
    (pc # "start" /\ (file_system_btree = NULL \/ data = NULL \/ data_size = 0))
      => /\ Failing
         /\ IsArgumentError
         /\ reads = {}

----------------------------------------------------------------------------
(* The stages of a call, in the order of the code *)
StageRank == [idle |-> 0, start |-> 1, object |-> 2, header |-> 3,
              accounting |-> 4, footer |-> 5, entries |-> 6]

Terminal == {"on_error", "done"}

IoSites == {"io_file_system_btree", "block_size", "block_data", "seek_offset",
            "read_buffer"}

AccountingSites == {"entries_data_offset", "entries_data_size",
                    "unused_data_offset", "unused_data_size"}

(* read_file_io_handle has called libbfio_handle_read_buffer *)
BlockRead ==
    /\ io_pc \in {"io_decode", "io_on_error", "io_done"}
    /\ error.site \notin {"io_file_system_btree", "block_size", "block_data",
                          "seek_offset"}

C11_State ==
    /\ (error # NoError /\ error.site \notin IoSites) => pc \in Terminal
    /\ error.site \in IoSites =>
         /\ pc = "idle"
         /\ reads = {}
         /\ toc_reads = <<>>
         /\ header = ZeroHeader
         /\ footer = ZeroFooter
         /\ io_pc \in {"io_on_error", "io_done"}
    /\ (BlockRead /\ read_count # block_size) =>
         /\ FailedAt("read_buffer")
         /\ error.domain = "IO"
         /\ pc = "idle"
         /\ reads = {}
    /\ error.site \in AccountingSites =>
         /\ btree_footer = NULL
         /\ footer = ZeroFooter
         /\ <<data_size - BtreeFooterSize, data_size>> \notin reads
         /\ toc_reads = <<>>
    /\ toc_reads # <<>> => <<data_size - BtreeFooterSize, data_size>> \in reads
    /\ btree_footer # NULL => btree_header # NULL /\ <<24, 28>> \in reads
    /\ btree_header # NULL => {<<24, 28>>, <<28, 32>>} \subseteq reads

C11_Step ==
    /\ pc' # pc =>
         \/ pc \notin Terminal /\ pc' \notin Terminal
              /\ StageRank[pc'] = StageRank[pc] + 1
         \/ pc \notin Terminal /\ pc' = "on_error" /\ pc \notin {"idle", "start"}
         \/ pc = "start" /\ pc' = "done" /\ result' = -1
         \/ pc = "entries" /\ pc' = "done" /\ result' = 1
         \/ pc = "on_error" /\ pc' = "done" /\ result' = -1
    /\ (pc = "idle" /\ pc' # "idle") =>
         /\ io_pc = "io_read"
         /\ read_count' = block_size
         /\ block_data = "allocated"
    /\ error # NoError =>
         /\ reads' = reads
         /\ toc_reads' = toc_reads
         /\ header' = header
         /\ footer' = footer
         /\ objects' = objects
         /\ error' = error
         /\ pc' \in Terminal \cup {"idle"}
         /\ result' # 1
         /\ io_result' # 1

(* C11: the stages of a call run only in the order block fetch, object     *)
(* header, B-tree header and accounting chain, footer, TOC records; the    *)
(* first failing check ends the call and nothing is read or decoded after  *)
(* it; a failed seek or a short read fails before read_data starts, and a  *)
(* failure of the accounting chain before the footer and any TOC record    *)
(* is read                                                                 *)
C11_StagesInOrder == []C11_State /\ [][C11_Step]_vars

C11_Witness ==
    /\ io_pc = "io_done"
    /\ io_result = -1
    /\ FailedAt("unused_data_size")
    /\ read_count = block_size

C12_State ==
    /\ pc = "done" => btree_header = NULL /\ btree_footer = NULL
    /\ io_pc = "io_done" =>
         /\ block_data \in {NULL, "freed"}
         /\ block_frees = IF block_data = NULL THEN 0 ELSE 1
         /\ pc \in {"idle", "done"}
    /\ block_data = "allocated" => block_frees = 0
    /\ block_frees <= 1

(* C12: when read_data returns, with 1 or -1, the B-tree header and footer *)
(* it created are freed; when read_file_io_handle returns, the block it    *)
(* allocated has been freed exactly once; no step of either function       *)
(* changes the file system B-tree it was given                            *)
C12_AllocationsReleased ==
    []C12_State /\ [][file_system_btree' = file_system_btree]_vars

C12_Witness ==
    /\ io_pc = "io_done"
    /\ io_result = -1
    /\ FailedAt("value_data_offset")
    /\ Len(toc_reads) = 2
    /\ block_frees = 1
    /\ btree_header = NULL
    /\ btree_footer = NULL

====
